---- MODULE Spec2Model ----
(***************************************************************************)
(* Model of firestore-listener.py: the FirestoreListener control loop      *)
(* (__listen_for_changes / __start_snapshot), the snapshot callback        *)
(* (__on_snapshot), and the thread pool that runs __php_run.               *)
(***************************************************************************)
EXTENDS Integers, Sequences, FiniteSets, TLC

\* ---------------------------------------------------------------- bounds
NumDocs == 2          \* documents that can exist in the watched collection
MaxBatches == 3       \* snapshots delivered in one run
MaxOpens == 2         \* calls of __start_snapshot in one run
MaxSubmit == 2        \* tasks submitted to the pool in one run
MaxWorkersBound == 2  \* largest --max_workers value explored

\* The watched query is limit(1): between two snapshots at most one document
\* leaves its window and one enters, so a snapshot holds at most two changes.
QueryLimit == 1
MaxBatchLen == 2 * QueryLimit

None == 0
Docs == 1..NumDocs
\* Documents already in the collection when the listener starts; the others
\* are the records inserted while it runs.
Preexisting == {1}
NewRecords == Docs \ Preexisting
Kinds == {"ADDED", "MODIFIED", "REMOVED"}

\* The type of the value a document's body holds: the records inserted while
\* the listener runs hold timestamps, the older ones hold a bytes value.
BodyType(d) == IF d \in Preexisting THEN "bytes" ELSE "timestamp"

VARIABLES
  pc,             \* position of the control loop (__listen_for_changes)
  col_watch,      \* self.col_watch: None or the id of a watch
  nsessions,      \* number of watches created so far (ids 1..nsessions)
  closed,         \* watches whose _closed flag is set
  is_first_time,  \* self.is_first_time
  max_workers,    \* self.max_workers
  work_queue,     \* the executor's work queue (task ids, FIFO)
  num_threads,    \* the executor's worker threads (its _threads set)
  running,        \* tasks whose worker is inside os.system
  submitted,      \* task id -> document handed to submit
  result,         \* task id -> "pending" | "ok" | "sinkfail" | "builderr"
  invocations,    \* task id -> number of os.system calls made for it
  gotFirst,       \* open watches that have delivered their first snapshot
  nbatches,       \* snapshots delivered so far
  opens,          \* calls of __start_snapshot so far
  failedReopens,  \* restart calls of __start_snapshot in which open raised
  closeCalls,     \* watches on which the control loop has called close()
  last            \* the snapshot delivered last: its numbers of ADDED and of
                  \* other changes, whether its processing raised

vars == <<pc, col_watch, nsessions, closed, is_first_time, max_workers,
          work_queue, num_threads, running, submitted, result, invocations,
          gotFirst, nbatches, opens,
          failedReopens, closeCalls, last>>

supVars == <<pc, col_watch, nsessions, closed, opens, failedReopens,
             closeCalls>>
poolVars == <<work_queue, num_threads, running, submitted, result, invocations>>
cbVars == <<is_first_time, gotFirst, nbatches, last>>

\* ------------------------------------------------------------- helpers
Range(s) == {s[i] : i \in 1..Len(s)}

Count(s, x) == Cardinality({i \in 1..Len(s) : s[i] = x})

\* The changes a snapshot can hold. The callback reads the document of a change
\* only when the change is ADDED (apart from the debug log), so MODIFIED and
\* REMOVED changes are enumerated for the documents that existed at start.
Events(D) ==
  [kind : {"ADDED"}, doc : D] \cup [kind : Kinds \ {"ADDED"}, doc : Preexisting]

\* What is remembered of a delivered snapshot: how many of its changes are
\* ADDED and how many are not.
Summary(changes) ==
  [nadded |-> Cardinality({i \in 1..Len(changes) : changes[i].kind = "ADDED"}),
   nother |-> Cardinality({i \in 1..Len(changes) : changes[i].kind # "ADDED"}),
   raised |-> FALSE]

\* Every list of at most MaxBatchLen changes in which no document is ADDED
\* twice (more than the query can produce: two ADDED changes in one snapshot
\* are included).
AllBatches ==
  {b \in UNION {[1..n -> Events(Docs)] : n \in 0..MaxBatchLen} :
     \A i, j \in 1..Len(b) :
       (i # j /\ b[i].kind = "ADDED" /\ b[j].kind = "ADDED")
         => b[i].doc # b[j].doc}

\* The changes of a snapshot that precede one of its changes.
Prefixes == {b \in AllBatches : Len(b) < MaxBatchLen}

\* ------------------------------------------------ __json_helper, __php_run
\* __json_helper: a DatetimeWithNanoseconds becomes its timestamp, any other
\* value json cannot encode raises TypeError.
json_helper(type) == IF type = "timestamp" THEN "float" ELSE "TypeError"

\* change.document.to_dict(): the body handed to submit.
to_dict(d) == [doc |-> d, type |-> BodyType(d)]

\* json.dumps(document, default=__json_helper): TRUE when a payload is built.
json_dumps_ok(document) == json_helper(document.type) # "TypeError"

\* What one call of __php_run ends with: the except clause logs a payload
\* error, a non-zero exit status is logged, otherwise the push was sent.
php_run_outcome(built, status_code) ==
  IF ~built THEN "builderr"
  ELSE IF status_code # 0 THEN "sinkfail" ELSE "ok"

ThreadsAfterTaskOneShot(n, outcome) == n - 1

ThreadsAfterTaskDies(n, outcome) == IF outcome = "ok" THEN n ELSE n - 1

\* __php_run returns normally whatever happened (try/except Exception, the
\* exit status is only logged), so the worker thread goes back to its queue:
\* the number of worker threads after a task, n being the number before.
ThreadsAfterTask(n, outcome) == n

QueueAfterRunRetry(q, id, outcome) ==
  IF outcome = "sinkfail" THEN Append(q, id) ELSE q

\* Nothing is put back on the queue when __php_run returns.
QueueAfterRun(q, id, outcome) == q

\* --------------------------------------------- ThreadPoolExecutor.submit
CanSpawnThreadUnbounded(n, maxw) == TRUE

\* _adjust_thread_count: with n threads, one more is created only below
\* max_workers.
CanSpawnThread(n, maxw) == n < maxw

SubmitWaitsForWorker(q, nrunning, maxw) == nrunning >= maxw

\* submit puts the work item on the executor's queue, which is created without
\* a size limit: the put never waits, whatever is queued or running.
SubmitWaits(q, nrunning, maxw) == FALSE

SubmitOneInFront(pool, id, maxw) ==
  [q |-> <<id>> \o pool.q,
   threads |-> IF pool.threads < maxw THEN pool.threads + 1 ELSE pool.threads]

\* submit(fn, document): the work item is queued without waiting, and a new
\* worker thread is started if allowed.
SubmitOne(pool, id, maxw) ==
  [q |-> Append(pool.q, id),
   threads |-> IF CanSpawnThread(pool.threads, maxw)
               THEN pool.threads + 1 ELSE pool.threads]

\* The submit calls one snapshot makes, for task ids firstId..firstId+n-1.
RECURSIVE SubmitAll(_, _, _, _)
SubmitAll(pool, firstId, n, maxw) ==
  IF n = 0 THEN pool
  ELSE SubmitAll(SubmitOne(pool, firstId, maxw), firstId + 1, n - 1, maxw)

\* ------------------------------------------------------- __on_snapshot
IsAddedOrModified(change) == change.kind # "REMOVED"

\* change.type.name == 'ADDED'
IsAdded(change) == change.kind = "ADDED"

\* The for loop of __on_snapshot from change i on: flag is is_first_time,
\* tasks the documents submitted so far.
RECURSIVE on_snapshot_loop(_, _, _, _)
on_snapshot_loop(changes, i, flag, tasks) ==
  IF i > Len(changes) THEN [flag |-> flag, tasks |-> tasks]
  ELSE IF IsAdded(changes[i])
    THEN IF flag
      THEN [flag |-> FALSE, tasks |-> tasks]
      ELSE on_snapshot_loop(changes, i + 1, flag,
                            Append(tasks, to_dict(changes[i].doc)))
    ELSE on_snapshot_loop(changes, i + 1, flag, tasks)

on_snapshot_rearming(changes, flag) ==
  LET r == on_snapshot_loop(changes, 1, flag, <<>>)
  IN [flag |-> r.tasks # <<>>, tasks |-> r.tasks]

\* __on_snapshot(col_snapshot, changes, read_time) with is_first_time = flag:
\* the flag afterwards and the documents submitted, in order.
on_snapshot(changes, flag) == on_snapshot_loop(changes, 1, flag, <<>>)

\* __on_snapshot when an exception is raised after the changes in before were
\* handled: what the loop did for them stays done; raised tells whether the
\* loop got that far (the return on the first ADDED change ends it earlier).
on_snapshot_failing(before, flag) ==
  LET r == on_snapshot(before, flag)
  IN [flag |-> r.flag, tasks |-> r.tasks,
      raised |-> ~(flag /\ \E i \in 1..Len(before) : IsAdded(before[i]))]

on_snapshot_raises_through(raised) == raised

\* @logger.catch around __on_snapshot: an exception raised in the callback is
\* logged and swallowed, the watch that called it sees a normal return.
on_snapshot_raises(raised) == FALSE

\* ------------------------------------------ __start_snapshot, control loop
\* @logger.catch around __start_snapshot: an exception of on_snapshot(...) is
\* logged and swallowed, the call returns None and col_watch is not assigned.
start_snapshot_raises(open_ok) == FALSE

start_snapshot_flag_reset(open_ok, flag) == open_ok \/ flag

\* self.is_first_time after __start_snapshot: the method assigns col_watch
\* only, the flag set in __init__ is left as it is.
start_snapshot_flag(open_ok, flag) == flag

\* self.col_watch after __start_snapshot.
start_snapshot_watch(open_ok, cw, n) == IF open_ok THEN n + 1 ELSE cw

\* @logger.catch on __listen_for_changes and on run: an exception that leaves
\* the loop is logged and the call returns None ("crashed" would be an
\* exception reaching the caller of run).
LoopExit(exc) == "stopped"

\* Between the test of _closed (line 192) and the call of __start_snapshot
\* (line 196) the loop only logs: it calls close() on no watch.
restart_close(cw, calls) == calls

after_restart_no_sleep(raised) == IF raised THEN "stopped" ELSE "poll"

\* try: self.__start_snapshot(); time.sleep(1) / except Exception: break
after_restart(raised) == IF raised THEN "stopped" ELSE "cooldown"

PollOutcomeNoneIsClosed(cw, cl) ==
  IF cw = None \/ cw \in cl THEN "closed" ELSE "open"

PollOutcomeAlwaysClosed(cw, cl) ==
  IF cw = None THEN "raise" ELSE "closed"

\* if self.col_watch._closed: attribute access on None raises AttributeError.
PollOutcome(cw, cl) ==
  IF cw = None THEN "raise"
  ELSE IF cw \in cl THEN "closed" ELSE "open"

Init ==
  /\ pc = "start"
  /\ col_watch = None
  /\ nsessions = 0
  /\ closed = {}
  /\ is_first_time = TRUE
  /\ max_workers \in 1..MaxWorkersBound
  /\ work_queue = <<>>
  /\ num_threads = 0
  /\ running = {}
  /\ submitted = <<>>
  /\ result = <<>>
  /\ invocations = <<>>
  /\ gotFirst = {}
  /\ nbatches = 0
  /\ opens = 0
  /\ failedReopens = 0
  /\ closeCalls = {}
  /\ last = Summary(<<>>)

\* __listen_for_changes, line 189: the initial __start_snapshot().
StartSnapshot(open_ok) ==
  /\ pc = "start"
  /\ col_watch' = start_snapshot_watch(open_ok, col_watch, nsessions)
  /\ nsessions' = IF open_ok THEN nsessions + 1 ELSE nsessions
  /\ opens' = opens + 1
  /\ pc' = IF start_snapshot_raises(open_ok)
             THEN LoopExit("Exception") ELSE "poll"
  /\ is_first_time' = start_snapshot_flag(open_ok, is_first_time)
  /\ UNCHANGED <<closed, failedReopens, closeCalls>>
  /\ UNCHANGED <<poolVars, gotFirst, nbatches, last, max_workers>>

\* while True: if self.col_watch._closed ...; an open watch leads to
\* time.sleep(0.001) and the next iteration.
Poll ==
  /\ pc = "poll"
  /\ pc' = CASE PollOutcome(col_watch, closed) = "raise" ->
                  LoopExit("AttributeError")
             [] PollOutcome(col_watch, closed) = "closed" -> "restart"
             [] OTHER -> "poll"
  /\ UNCHANGED <<col_watch, nsessions, closed, opens, failedReopens,
                 closeCalls>>
  /\ UNCHANGED <<poolVars, cbVars, max_workers>>

\* try: self.__start_snapshot() ... except Exception: break
Restart(open_ok) ==
  /\ pc = "restart"
  /\ opens < MaxOpens
  /\ col_watch' = start_snapshot_watch(open_ok, col_watch, nsessions)
  /\ nsessions' = IF open_ok THEN nsessions + 1 ELSE nsessions
  /\ opens' = opens + 1
  /\ failedReopens' = IF open_ok THEN failedReopens ELSE failedReopens + 1
  /\ pc' = after_restart(start_snapshot_raises(open_ok))
  /\ closeCalls' = restart_close(col_watch, closeCalls)
  /\ is_first_time' = start_snapshot_flag(open_ok, is_first_time)
  /\ UNCHANGED closed
  /\ UNCHANGED <<poolVars, gotFirst, nbatches, last, max_workers>>

\* time.sleep(1) after the restart call, then time.sleep(0.001)
Cooldown ==
  /\ pc = "cooldown"
  /\ pc' = "poll"
  /\ UNCHANGED <<col_watch, nsessions, closed, opens, failedReopens,
                 closeCalls>>
  /\ UNCHANGED <<poolVars, cbVars, max_workers>>

\* ------------------------------------------------------ the Change Source
\* The subscription of watch s dies silently: its _closed flag is set.
CloseSession(s) ==
  /\ s \in 1..nsessions
  /\ s \notin closed
  /\ closed' = closed \cup {s}
  /\ gotFirst' = gotFirst \ {s}
  /\ UNCHANGED <<pc, col_watch, nsessions, opens, failedReopens, closeCalls>>
  /\ UNCHANGED <<poolVars, is_first_time, nbatches, last, max_workers>>

\* One run of __on_snapshot for watch s: r holds the flag and the submitted
\* documents it ends with, sum is what is remembered of the snapshot. A watch
\* whose callback lets an exception through stops delivering.
Callback(s, r, sum) ==
  /\ pc \notin {"stopped", "crashed"}
  /\ s \in 1..nsessions
  /\ s \notin closed
  /\ nbatches < MaxBatches
  /\ LET n == Len(r.tasks)
         pool == SubmitAll([q |-> work_queue, threads |-> num_threads],
                           Len(submitted) + 1, n, max_workers)
     IN /\ Len(submitted) + n <= MaxSubmit
        /\ n > 0 => ~SubmitWaits(work_queue, Cardinality(running), max_workers)
        /\ is_first_time' = r.flag
        /\ submitted' = submitted \o r.tasks
        /\ last' = sum
        /\ result' = result \o [i \in 1..n |-> "pending"]
        /\ invocations' = invocations \o [i \in 1..n |-> 0]
        /\ work_queue' = pool.q
        /\ num_threads' = pool.threads
        /\ UNCHANGED running
  /\ closed' = IF on_snapshot_raises(sum.raised) THEN closed \cup {s} ELSE closed
  /\ gotFirst' = IF on_snapshot_raises(sum.raised)
                   THEN gotFirst \ {s} ELSE gotFirst \cup {s}
  /\ nbatches' = nbatches + 1
  /\ UNCHANGED <<pc, col_watch, nsessions, opens, failedReopens, closeCalls,
                 max_workers>>

\* Watch s calls __on_snapshot(col_snapshot, changes, read_time).
OnSnapshot(s, changes) ==
  Callback(s, on_snapshot(changes, is_first_time), Summary(changes))

\* Watch s calls __on_snapshot(col_snapshot, changes, read_time) and the run
\* raises after the changes in before were handled (reading the next change
\* or its document, logging it, submitting it, or setting up the log of a
\* new day when before is empty).
OnSnapshotRaises(s, before) ==
  /\ before \in Prefixes
  /\ on_snapshot_failing(before, is_first_time).raised
  /\ Callback(s, on_snapshot_failing(before, is_first_time),
              [Summary(before) EXCEPT !.raised = TRUE])

\* -------------------------------------------------- the executor's workers
\* An idle worker takes the next work item and calls __php_run(document):
\* the payload is built and, if that worked, os.system(cmd) is entered.
WorkerGet ==
  /\ Cardinality(running) < num_threads
  /\ work_queue # <<>>
  /\ LET id == Head(work_queue)
         built == json_dumps_ok(submitted[id])
         outcome == php_run_outcome(built, 0)
     IN IF built
        THEN /\ running' = running \cup {id}
             /\ invocations' = [invocations EXCEPT ![id] = @ + 1]
             /\ work_queue' = Tail(work_queue)
             /\ UNCHANGED <<num_threads, result>>
        ELSE /\ num_threads' = ThreadsAfterTask(num_threads, outcome)
             /\ result' = [result EXCEPT ![id] = outcome]
             /\ work_queue' = QueueAfterRun(Tail(work_queue), id, outcome)
             /\ UNCHANGED <<running, invocations>>
  /\ UNCHANGED submitted
  /\ UNCHANGED <<supVars, cbVars, max_workers>>

\* os.system(cmd) for task id returns status_code; __php_run logs a non-zero
\* status and returns, the worker goes back to the queue.
SinkReturn(id, status_code) ==
  /\ id \in running
  /\ LET outcome == php_run_outcome(TRUE, status_code)
     IN /\ running' = running \ {id}
        /\ num_threads' = ThreadsAfterTask(num_threads, outcome)
        /\ result' = [result EXCEPT ![id] = outcome]
        /\ work_queue' = QueueAfterRun(work_queue, id, outcome)
  /\ UNCHANGED <<submitted, invocations>>
  /\ UNCHANGED <<supVars, cbVars, max_workers>>

\* The watches that can call the callback.
OpenWatches == {s \in 1..nsessions : s \notin closed}

Next ==
  \/ \E ok \in BOOLEAN : StartSnapshot(ok)
  \/ Poll
  \/ \E ok \in BOOLEAN : Restart(ok)
  \/ Cooldown
  \/ \E s \in 1..MaxOpens : CloseSession(s)
  \/ \E s \in OpenWatches : \E changes \in AllBatches : OnSnapshot(s, changes)
  \/ \E s \in OpenWatches : \E before \in Prefixes : OnSnapshotRaises(s, before)
  \/ WorkerGet
  \/ \E id \in 1..MaxSubmit : \E st \in {0, 1} : SinkReturn(id, st)

Spec == Init /\ [][Next]_vars

\* One step of the control loop, which runs in the main thread.
LoopStep ==
  \/ \E ok \in BOOLEAN : StartSnapshot(ok)
  \/ Poll
  \/ \E ok \in BOOLEAN : Restart(ok)
  \/ Cooldown

\* The main thread is never blocked: the control loop keeps taking steps.
FairSpec == Spec /\ WF_vars(LoopStep)

\* One step of the executor's worker threads.
PoolStep ==
  \/ WorkerGet
  \/ \E id \in running : \E st \in {0, 1} : SinkReturn(id, st)

\* The workers are never blocked outside os.system and the os.system calls
\* return: the pool keeps taking steps while it has one to take.
PoolFairSpec == Spec /\ WF_vars(PoolStep)

\* ------------------------------------------------------------ properties
Sessions == 1..MaxOpens

Open(s) == s \in 1..nsessions /\ s \notin closed

NewTasks == SubSeq(submitted', Len(submitted) + 1, Len(submitted'))

AddedOf(changes) == SelectSeq(changes, LAMBDA c : c.kind = "ADDED")

Done(id) == result[id] # "pending"

InitialOpenFailed == pc # "start" /\ col_watch = None

\* C1: the first snapshot a watch delivers after it was opened submits no
\* task, for the initial watch and for every watch opened by a restart.
C1_FirstBatchSubmitsNothing ==
  [][nbatches' # nbatches =>
     \A s \in Sessions : \A changes \in AllBatches :
       (OnSnapshot(s, changes) /\ s \notin gotFirst)
         => submitted' = submitted]_vars

\* C2: every snapshot after the first one of its watch submits exactly one
\* task per ADDED change, in order, built from that change's document.
C2_LaterBatchSubmitsEachAdded ==
  [][nbatches' # nbatches =>
     \A s \in Sessions : \A changes \in AllBatches :
       (OnSnapshot(s, changes) /\ s \in gotFirst)
         => NewTasks = [i \in 1..Len(AddedOf(changes)) |->
                          to_dict(AddedOf(changes)[i].doc)]]_vars

\* C3: a re-open that fails is the only one: the control loop is stopped
\* right after it, with no further open attempt and no further polling.
C3_FailedReopenStops ==
  failedReopens > 0 => (pc = "stopped" /\ failedReopens = 1)

\* C4: no document is submitted twice, and every record inserted during the
\* run that a snapshot reports as ADDED has been submitted.
C4_ExactlyOnce ==
  /\ [](\A i, j \in 1..Len(submitted) :
          submitted[i].doc = submitted[j].doc => i = j)
  /\ [][nbatches' # nbatches =>
        \A s \in Sessions : \A changes \in AllBatches :
          OnSnapshot(s, changes) =>
            \A i \in 1..Len(changes) :
              (changes[i].kind = "ADDED" /\ changes[i].doc \in NewRecords)
                => \E k \in 1..Len(submitted') :
                     submitted'[k].doc = changes[i].doc]_vars

\* C5: at most max_workers sink invocations (os.system calls) run at once.
C5_ConcurrencyBounded == Cardinality(running) <= max_workers

\* C5 witness: every worker is inside a sink call and a task is waiting.
C5_Witness ==
  /\ Cardinality(running) = max_workers
  /\ work_queue # <<>>

\* C6: a step in which a task ends in failure (non-zero sink status or
\* payload error) changes nothing of the control loop, the watches or the
\* first-time flag, leaves every other task where it was and keeps every
\* worker thread alive, the one that ran the task being free again.
C6_FailureContained ==
  [][\A id \in 1..Len(result) :
       (result[id] = "pending" /\ result'[id] \in {"sinkfail", "builderr"})
         => /\ UNCHANGED <<pc, col_watch, nsessions, closed, opens,
                           failedReopens, is_first_time, gotFirst, submitted>>
            /\ \A j \in 1..Len(result) : j # id => result'[j] = result[j]
            /\ num_threads' = num_threads
            /\ running' = running \ {id}
            /\ Range(work_queue') = Range(work_queue) \ {id}]_vars

\* C6 witness: a task failed, a task submitted after it was delivered, and
\* the control loop still polls an open watch.
C6_Witness ==
  /\ \E i, j \in 1..Len(result) :
       i < j /\ result[i] \in {"sinkfail", "builderr"} /\ result[j] = "ok"
  /\ pc = "poll"
  /\ Open(col_watch)

\* C7: at most one watch is not closed, and a watch is opened only by the
\* initial call or by a restart made while the current watch is closed.
C7_OneOpenSession ==
  /\ [](Cardinality({s \in 1..nsessions : s \notin closed}) <= 1)
  /\ [][nsessions' # nsessions =>
          (pc = "start" \/ (pc = "restart" /\ col_watch \in closed))]_vars

\* C7 witness: a restart has replaced a closed watch by an open one.
C7_Witness == nsessions >= 2 /\ Open(col_watch) /\ 1 \in closed

\* C8: after a failed initial open there is no second open and no watch, the
\* control loop does nothing but end, and it does end, by returning.
C8_InitialOpenFailureStops ==
  /\ [](InitialOpenFailed =>
          (opens = 1 /\ nsessions = 0 /\ pc \in {"poll", "stopped"}))
  /\ InitialOpenFailed ~> (pc = "stopped")

\* C8 witness: the loop has returned after the initial open failed.
C8_Witness == InitialOpenFailed /\ pc = "stopped"

\* C9: a snapshot submits no more tasks than it holds ADDED changes, and a
\* snapshot holding only MODIFIED and REMOVED changes submits nothing and
\* leaves is_first_time as it was, whatever the flag is.
C9_OnlyAddedSubmits ==
  [][nbatches' # nbatches =>
       /\ Len(NewTasks) <= last'.nadded
       /\ last'.nadded = 0 =>
            (submitted' = submitted /\ is_first_time' = is_first_time)]_vars

\* C9 witness: a snapshot of two changes, none of them ADDED, was processed
\* after the flag was cleared, and nothing has been submitted.
C9_Witness ==
  /\ last.nadded = 0
  /\ last.nother = 2
  /\ ~is_first_time
  /\ submitted = <<>>

\* C10 as claimed: every task that completed had the sink invoked exactly once.
C10_SinkOncePerTask ==
  \A id \in 1..Len(result) : Done(id) => invocations[id] = 1

\* C10: the sink is invoked at most once per task, exactly once for a task
\* that completed with a sink status and never for one whose payload could
\* not be built; a completed task is neither queued nor running again.
C10_AtMostOnceNoRetry ==
  \A id \in 1..Len(result) :
    /\ invocations[id] <= 1
    /\ result[id] \in {"ok", "sinkfail"} => invocations[id] = 1
    /\ result[id] = "builderr" => invocations[id] = 0
    /\ Done(id) => (id \notin Range(work_queue) /\ id \notin running)
    /\ Count(work_queue, id) + (IF id \in running THEN 1 ELSE 0) <= 1

\* C10 witness: one task ended with a sink failure and another with a
\* payload error, and the pool is idle.
C10_Witness ==
  /\ \E i, j \in 1..Len(result) :
       result[i] = "sinkfail" /\ result[j] = "builderr"
  /\ work_queue = <<>>
  /\ running = {}

\* The snapshots the change source may deliver to watch s in this state, the
\* state of the pool left aside.
Deliverable(s, changes) ==
  /\ pc \notin {"stopped", "crashed"}
  /\ Open(s)
  /\ nbatches < MaxBatches
  /\ Len(submitted) + Len(on_snapshot(changes, is_first_time).tasks) <= MaxSubmit

AllBusy == Cardinality(running) = max_workers

\* C11: submit never makes the callback wait: a snapshot can be processed in
\* every state, also when every worker is inside a sink call and tasks are
\* queued, and it leaves all its tasks on the queue in the same step, in
\* order, without touching the running tasks.
C11_SubmitNeverBlocks ==
  /\ [](AllBusy => \A s \in Sessions : \A changes \in AllBatches :
                     Deliverable(s, changes) => ENABLED OnSnapshot(s, changes))
  /\ [][nbatches' # nbatches =>
          /\ work_queue' = work_queue \o
                [i \in 1..Len(NewTasks) |-> Len(submitted) + i]
          /\ running' = running]_vars

\* C11 witness: the only worker is inside a sink call and the task submitted
\* after it waits on the queue.
C11_Witness ==
  /\ AllBusy
  /\ running = {1}
  /\ work_queue = <<2>>
  /\ nbatches = 3

\* C12: a callback run that raises changes nothing of the control loop and
\* leaves its watch open and current, submits tasks only for the changes
\* handled before the exception, and after it every deliverable snapshot can
\* still be processed.
C12_CallbackErrorCaught ==
  /\ [][(nbatches' # nbatches /\ last'.raised) =>
          /\ UNCHANGED <<pc, col_watch, nsessions, closed, opens, failedReopens>>
          /\ Len(NewTasks) <= last'.nadded
          /\ nbatches' = nbatches + 1]_vars
  /\ [](last.raised =>
          \A s \in Sessions : \A changes \in AllBatches :
            Deliverable(s, changes) => ENABLED OnSnapshot(s, changes))

\* C12 witness: the second snapshot raised after its ADDED change was
\* submitted; the control loop polls, the watch is open and a third snapshot
\* can be delivered.
C12_Witness ==
  /\ last.raised
  /\ last.nadded = 1
  /\ Len(submitted) = 1
  /\ nbatches = 2
  /\ pc = "poll"
  /\ Open(col_watch)
  /\ ENABLED OnSnapshot(col_watch, <<>>)

\* The documents of the ADDED changes of a snapshot, in order.
TasksOf(changes) ==
  [i \in 1..Len(AddedOf(changes)) |-> to_dict(AddedOf(changes)[i].doc)]

\* The snapshots that leave a given summary.
BatchesOf == [sum \in {Summary(c) : c \in AllBatches} |->
               {c \in AllBatches : Summary(c) = sum}]

OneAdded(d) == <<[kind |-> "ADDED", doc |-> d]>>

\* C13: with is_first_time false, a snapshot that is processed submits the
\* documents of its ADDED changes, whatever was submitted before, and leaves
\* the flag false: processing the same snapshot again submits the same tasks.
C13_ClassifyIdempotent ==
  [][(nbatches' # nbatches /\ ~is_first_time /\ ~last'.raised) =>
       /\ ~is_first_time'
       /\ Len(NewTasks) = last'.nadded
       /\ NewTasks # <<>> =>
            \A changes \in BatchesOf[last'] :
              OnSnapshot(col_watch, changes) => NewTasks = TasksOf(changes)]_vars

\* C13 witness: the snapshot [ADDED d] was processed with the flag false and
\* submitted d, and the same watch can process the same snapshot again, which
\* submits d once more.
C13_Witness ==
  /\ ~is_first_time
  /\ Len(submitted) = 1
  /\ nbatches = 2
  /\ last = Summary(OneAdded(submitted[1].doc))
  /\ ENABLED (/\ OnSnapshot(col_watch, OneAdded(submitted[1].doc))
              /\ submitted' = submitted \o submitted)

\* C14: every snapshot that a watch delivers and the callback processes to
\* its end, the first one of the watch included and whatever it holds, leaves
\* is_first_time false.
C14_FirstBatchClearsFlag ==
  [][(nbatches' # nbatches /\ ~last'.raised) => ~is_first_time']_vars

\* C15: every restart call of __start_snapshot is made after the control loop
\* has called close() on the watch it replaces.
C15_CloseBeforeReopen ==
  [][(pc = "restart" /\ opens' # opens) => col_watch \in closeCalls']_vars

\* The current watch is closed while the control loop runs.
ClosedWhileRunning ==
  /\ pc = "poll"
  /\ col_watch # None
  /\ col_watch \in closed

\* C16: when the current watch is closed while the control loop polls, the
\* loop detects it, calls __start_snapshot again (as long as the run has calls
\* left) and reaches the cooldown sleep; a call that opens a watch makes that
\* watch the current one, open, and is followed by the cooldown sleep, after
\* which polling resumes.
C16_ClosedWatchReopened ==
  /\ (ClosedWhileRunning /\ opens < MaxOpens) ~> (pc = "cooldown")
  /\ [][(pc = "restart" /\ pc' # pc) => opens' = opens + 1]_vars
  /\ [][(pc = "restart" /\ nsessions' # nsessions) =>
          /\ col_watch' = nsessions'
          /\ col_watch' \notin closed'
          /\ pc' = "cooldown"]_vars
  /\ [][(pc = "cooldown" /\ pc' # pc) => pc' = "poll"]_vars

\* C16 witness: the first watch was closed, the restart opened the second one,
\* which is current and open, and the loop is in its cooldown sleep.
C16_Witness ==
  /\ pc = "cooldown"
  /\ 1 \in closed
  /\ col_watch = 2
  /\ Open(2)

AnyPending == \E id \in 1..Len(result) : ~Done(id)

\* C17: when every os.system call returns, a submitted task does not stay
\* pending: whenever tasks are pending, a state follows in which every
\* submitted task has been run by a worker.
C17_EveryTaskRuns == AnyPending ~> ~AnyPending

\* C17 witness: with a single worker, two tasks were submitted by the same
\* snapshot, so that one waited behind the other, and both have been run.
C17_Witness ==
  /\ max_workers = 1
  /\ nbatches = 2
  /\ Len(result) = 2
  /\ ~AnyPending

\* C18: is_first_time never goes from false to true, whatever watch is opened
\* or restarted, and a snapshot processed to its end that submits fewer tasks
\* than it holds ADDED changes is the one that clears the flag: there is at
\* most one such snapshot in a run.
C18_FlagNeverRearmed ==
  /\ [][is_first_time' => is_first_time]_vars
  /\ [][(nbatches' # nbatches /\ ~last'.raised
           /\ Len(NewTasks) < last'.nadded)
          => (is_first_time /\ ~is_first_time')]_vars

\* C18 witness: the flag is false and a watch opened by a restart has
\* delivered a snapshot of one ADDED change, which was submitted.
C18_Witness ==
  /\ ~is_first_time
  /\ col_watch = 2
  /\ gotFirst = {2}
  /\ nbatches = 2
  /\ last = Summary(OneAdded(1))
  /\ Len(submitted) = 1

\* A worker has taken task id from the queue.
Started(id) == id \in running \/ Done(id)

\* C19: with max_workers = 1 the tasks are taken in the order of their
\* submission, one at a time: when a task has been started, every task
\* submitted before it has been run to its end, and at most one os.system
\* call is running.
C19_SingleWorkerFifo ==
  max_workers = 1 =>
    /\ Cardinality(running) <= 1
    /\ \A id \in 1..Len(result) :
         Started(id) => \A j \in 1..(id - 1) : Done(j) /\ j \notin running

\* C19 witness: with one worker, the os.system call of the first task has
\* returned and the one of the second task is running.
C19_Witness ==
  /\ max_workers = 1
  /\ Len(result) = 2
  /\ invocations = <<1, 1>>
  /\ Done(1)
  /\ running = {2}

====
